---- MODULE Spec2Model ----
(***************************************************************************)
(* Content validation of ccpm (src/ccpm/validation.py): the threshold      *)
(* resolver, the placeholder detector, the default content generator and   *)
(* the content validator, over a file system and a process environment.    *)
(* Texts are TLA+ strings; a character is a string of length one.          *)
(***************************************************************************)
EXTENDS Integers, Sequences, FiniteSets, TLC

VARIABLES
    fs,        \* the files that exist: path -> content
    environ,   \* os.environ: the variables that are set -> value
    call,      \* the operation just performed and its arguments
    frame,     \* the locals validate_body_file_has_content had on leaving
    result,    \* how the operation ended: value returned or exception
    stderr     \* the diagnostics the operation printed, in order

---------------------------------------------------------------------------
(* Characters and the string primitives of Python the code relies on.      *)

Char(s, i) == SubSeq(s, i, i)

\* The characters the regular expression class \s and str.strip() remove.
Whitespace == {" ", "\t", "\n", "\r", "\f"}

UpperCase == "ABCDEFGHIJKLMNOPQRSTUVWXYZ"

LowerCase == "abcdefghijklmnopqrstuvwxyz"

Digits == "0123456789"

\* The characters the regular expression class \w accepts.
WordChars ==
    {Char(UpperCase, i) : i \in 1..26} \cup {Char(LowerCase, i) : i \in 1..26}
        \cup {Char(Digits, i) : i \in 1..10} \cup {"_"}

\* Case folding of one character, as re.IGNORECASE compares letters.
LowerChar(c) ==
    IF \E i \in 1..26 : Char(UpperCase, i) = c
    THEN Char(LowerCase, CHOOSE i \in 1..26 : Char(UpperCase, i) = c)
    ELSE c

RECURSIVE Lower(_)
Lower(s) ==
    IF Len(s) = 0 THEN ""
    ELSE IF Len(s) = 1 THEN LowerChar(s)
    ELSE LET h == Len(s) \div 2
         IN  Lower(SubSeq(s, 1, h)) \o Lower(SubSeq(s, h + 1, Len(s)))

\* re.sub(r'\s', '', content): every whitespace character removed.
RECURSIVE RemoveWhitespace(_)
RemoveWhitespace(s) ==
    IF Len(s) = 0 THEN ""
    ELSE IF Len(s) = 1 THEN (IF s \in Whitespace THEN "" ELSE s)
    ELSE LET h == Len(s) \div 2
         IN  RemoveWhitespace(SubSeq(s, 1, h))
                 \o RemoveWhitespace(SubSeq(s, h + 1, Len(s)))

\* str.startswith(prefix)
StartsWith(s, prefix) ==
    Len(s) >= Len(prefix) /\ SubSeq(s, 1, Len(prefix)) = prefix

\* str.startswith(tuple of prefixes)
StartsWithAny(s, prefixes) == \E p \in prefixes : StartsWith(s, p)

---------------------------------------------------------------------------
(* has_placeholder_text: the catalogue and the regular expression search.  *)

\* A pattern is its literal tokens in order (".*" stands between two
\* tokens) and whether the negative lookahead (?![\w]) follows the last one.
Pattern(tokens, lookahead) == [tokens |-> tokens, notWordAfter |-> lookahead]

placeholder_patterns ==
    << Pattern(<<"insert", "here">>, FALSE),
       Pattern(<<"to", "be", "added">>, FALSE),
       Pattern(<<"todo">>, TRUE),
       Pattern(<<"tbd">>, FALSE),
       Pattern(<<"placeholder">>, FALSE),
       Pattern(<<"description", "here">>, FALSE),
       Pattern(<<"add", "content">>, FALSE),
       Pattern(<<"write", "here">>, FALSE),
       Pattern(<<"fill", "in">>, FALSE),
       Pattern(<<"coming", "soon">>, FALSE),
       Pattern(<<"work", "in", "progress">>, FALSE),
       Pattern(<<"wip">>, TRUE),
       Pattern(<<"xxx">>, FALSE),
       Pattern(<<"fixme">>, FALSE),
       Pattern(<<"update", "this">>, FALSE) >>

\* The literal tok stands in t at position i.
TokenAt(t, tok, i) ==
    i + Len(tok) - 1 <= Len(t) /\ SubSeq(t, i, i + Len(tok) - 1) = tok

\* DotStarSpans with re.DOTALL in force: "." matches the newline too.
DotStarSpansLines(t, from, to) == TRUE

\* "." matches every character but the newline, so ".*" spans t[from..to]
\* exactly when no newline lies in it.
DotStarSpans(t, from, to) == \A k \in from..to : Char(t, k) # "\n"

\* MatchRest with the lookahead (?![\w]) left out of the pattern.
RECURSIVE MatchRestNoLookahead(_, _, _, _)
MatchRestNoLookahead(t, tokens, from, lookahead) ==
    IF tokens = <<>>
    THEN TRUE
    ELSE \E i \in from..Len(t) :
            /\ TokenAt(t, Head(tokens), i)
            /\ DotStarSpans(t, from, i - 1)
            /\ MatchRestNoLookahead(t, Tail(tokens), i + Len(Head(tokens)),
                                    lookahead)

\* The rest of a pattern matches t from position from on: each remaining
\* token after a ".*" gap, then the lookahead at the end.
RECURSIVE MatchRest(_, _, _, _)
MatchRest(t, tokens, from, lookahead) ==
    IF tokens = <<>>
    THEN lookahead => (from > Len(t) \/ Char(t, from) \notin WordChars)
    ELSE \E i \in from..Len(t) :
            /\ TokenAt(t, Head(tokens), i)
            /\ DotStarSpans(t, from, i - 1)
            /\ MatchRest(t, Tail(tokens), i + Len(Head(tokens)), lookahead)

\* re.search(p, t): the pattern matches starting at some position.
Search(p, t) ==
    \E i \in 1..Len(t) :
        /\ TokenAt(t, Head(p.tokens), i)
        /\ MatchRest(t, Tail(p.tokens), i + Len(Head(p.tokens)), p.notWordAfter)

\* re.search of the fifteen patterns joined by "|", re.IGNORECASE.
search_placeholder_patterns(content) ==
    LET folded == Lower(content)
    IN  \E k \in 1..Len(placeholder_patterns) :
            Search(placeholder_patterns[k], folded)

---------------------------------------------------------------------------
(* get_default_content: the five templates.                                *)

EpicTemplate ==
    "# Epic Implementation\n"
    \o "\n"
    \o "## Overview\n"
    \o "This epic encompasses the implementation tasks required for this feature.\n"
    \o "\n"
    \o "## Objectives\n"
    \o "- Define clear implementation goals\n"
    \o "- Establish success criteria\n"
    \o "- Coordinate parallel development efforts\n"
    \o "\n"
    \o "## Technical Approach\n"
    \o "The implementation will follow established patterns and best practices.\n"
    \o "\n"
    \o "## Success Metrics\n"
    \o "- All acceptance criteria met\n"
    \o "- Tests passing\n"
    \o "- Documentation complete\n"
    \o "\n"
    \o "## Notes\n"
    \o "Further details will be added as implementation progresses."

TaskTemplate ==
    "# Task Details\n"
    \o "\n"
    \o "## Description\n"
    \o "This task implements a specific component of the parent epic.\n"
    \o "\n"
    \o "## Implementation Notes\n"
    \o "- Follow existing code patterns\n"
    \o "- Ensure comprehensive test coverage\n"
    \o "- Update documentation as needed\n"
    \o "\n"
    \o "## Acceptance Criteria\n"
    \o "- [ ] Implementation complete\n"
    \o "- [ ] Tests passing\n"
    \o "- [ ] Code reviewed\n"
    \o "- [ ] Documentation updated\n"
    \o "\n"
    \o "## Technical Details\n"
    \o "Additional technical details will be documented during implementation."

ProgressTemplate ==
    "## Progress Update\n"
    \o "\n"
    \o "### Summary\n"
    \o "Work is progressing on this issue. Details to follow.\n"
    \o "\n"
    \o "### Recent Activity\n"
    \o "- Analyzing requirements\n"
    \o "- Setting up development environment\n"
    \o "- Beginning implementation\n"
    \o "\n"
    \o "### Next Steps\n"
    \o "- Continue implementation\n"
    \o "- Add tests\n"
    \o "- Update documentation\n"
    \o "\n"
    \o "---\n"
    \o "*Detailed progress information will be added in subsequent updates.*"

CompletionTemplate ==
    "## Task Completed\n"
    \o "\n"
    \o "### Summary\n"
    \o "This task has been successfully completed.\n"
    \o "\n"
    \o "### Deliverables\n"
    \o "- Implementation complete\n"
    \o "- Tests passing\n"
    \o "- Documentation updated\n"
    \o "\n"
    \o "### Verification\n"
    \o "- All acceptance criteria met\n"
    \o "- Code reviewed and approved\n"
    \o "- Integration tests passing\n"
    \o "\n"
    \o "### Notes\n"
    \o "The implementation follows established patterns and meets all requirements."

\* A fallback template of one heading and one sentence.
FallbackTemplateHeading == "## Issue Details\n\nDetails follow."

FallbackTemplate ==
    "## Issue Details\n"
    \o "\n"
    \o "### Context\n"
    \o "This issue tracks work in progress.\n"
    \o "\n"
    \o "### Current Status\n"
    \o "Active development ongoing.\n"
    \o "\n"
    \o "### Next Steps\n"
    \o "- Continue implementation\n"
    \o "- Add comprehensive tests\n"
    \o "- Update relevant documentation\n"
    \o "\n"
    \o "---\n"
    \o "*More details will be added as work progresses.*"

\* get_default_content with "issue:" missing from the second branch.
get_default_content_task_only(context) ==
    IF StartsWith(context, "epic:") THEN EpicTemplate
    ELSE IF StartsWith(context, "task:") THEN TaskTemplate
    ELSE IF StartsWithAny(context, {"progress-update:", "comment:", "update:"})
         THEN ProgressTemplate
    ELSE IF StartsWith(context, "completion:") THEN CompletionTemplate
    ELSE FallbackTemplate

\* get_default_content(context): a constant per branch, chosen by prefix.
get_default_content(context) ==
    IF StartsWith(context, "epic:") THEN EpicTemplate
    ELSE IF StartsWithAny(context, {"task:", "issue:"}) THEN TaskTemplate
    ELSE IF StartsWithAny(context, {"progress-update:", "comment:", "update:"})
         THEN ProgressTemplate
    ELSE IF StartsWith(context, "completion:") THEN CompletionTemplate
    ELSE FallbackTemplate

---------------------------------------------------------------------------
(* get_min_content_length: the environment lookup and int().               *)

\* str.strip(): leading and trailing whitespace removed.
RECURSIVE LStrip(_)
LStrip(s) ==
    IF Len(s) > 0 /\ Char(s, 1) \in Whitespace
    THEN LStrip(SubSeq(s, 2, Len(s))) ELSE s

RECURSIVE RStrip(_)
RStrip(s) ==
    IF Len(s) > 0 /\ Char(s, Len(s)) \in Whitespace
    THEN RStrip(SubSeq(s, 1, Len(s) - 1)) ELSE s

Strip(s) == LStrip(RStrip(s))

IsDigit(c) == \E d \in 1..10 : Char(Digits, d) = c

DigitValue(c) == (CHOOSE d \in 1..10 : Char(Digits, d) = c) - 1

\* The digits of an integer literal, sign removed.
Unsigned(s) ==
    IF Len(s) > 0 /\ Char(s, 1) \in {"+", "-"} THEN SubSeq(s, 2, Len(s)) ELSE s

\* int(s) accepts surrounding whitespace, one optional sign and decimal
\* digits, single underscores allowed between digits.
IsIntLiteral(s) ==
    LET d == Unsigned(Strip(s))
    IN  /\ Len(d) > 0
        /\ IsDigit(Char(d, 1)) /\ IsDigit(Char(d, Len(d)))
        /\ \A i \in 1..Len(d) : IsDigit(Char(d, i)) \/ Char(d, i) = "_"
        /\ \A i \in 1..(Len(d) - 1) : ~(Char(d, i) = "_" /\ Char(d, i + 1) = "_")

RECURSIVE DecimalValue(_)
DecimalValue(d) ==
    IF Len(d) = 0 THEN 0
    ELSE IF Char(d, Len(d)) = "_" THEN DecimalValue(SubSeq(d, 1, Len(d) - 1))
    ELSE 10 * DecimalValue(SubSeq(d, 1, Len(d) - 1)) + DigitValue(Char(d, Len(d)))

\* int(s) raises ValueError on a string that is no integer literal.
int_raises(s) == ~IsIntLiteral(s)

\* int(s) on an integer literal.
int(s) ==
    LET b == Strip(s)
    IN  IF Len(b) > 0 /\ Char(b, 1) = "-"
        THEN 0 - DecimalValue(Unsigned(b)) ELSE DecimalValue(Unsigned(b))

EnvNames ==
    {"CCPM_MIN_EPIC_CONTENT", "CCPM_MIN_TASK_CONTENT",
     "CCPM_MIN_COMMENT_CONTENT", "CCPM_MIN_DEFAULT_CONTENT"}

\* os.environ.get(name, default) on the environment e.
environ_get(e, name, default) == IF name \in DOMAIN e THEN e[name] ELSE default

\* min_content_setting with "completion:" missing from the third branch.
min_content_setting_no_completion(e, context) ==
    IF StartsWith(context, "epic:")
    THEN environ_get(e, "CCPM_MIN_EPIC_CONTENT", "100")
    ELSE IF StartsWithAny(context, {"task:", "issue:"})
    THEN environ_get(e, "CCPM_MIN_TASK_CONTENT", "50")
    ELSE IF StartsWithAny(context, {"comment:", "update:", "progress-update:"})
    THEN environ_get(e, "CCPM_MIN_COMMENT_CONTENT", "30")
    ELSE environ_get(e, "CCPM_MIN_DEFAULT_CONTENT", "50")

\* min_content_setting with the second branch reading the epic variable.
min_content_setting_epic_for_task(e, context) ==
    IF StartsWith(context, "epic:")
    THEN environ_get(e, "CCPM_MIN_EPIC_CONTENT", "100")
    ELSE IF StartsWithAny(context, {"task:", "issue:"})
    THEN environ_get(e, "CCPM_MIN_EPIC_CONTENT", "50")
    ELSE IF StartsWithAny(context,
                {"comment:", "update:", "progress-update:", "completion:"})
    THEN environ_get(e, "CCPM_MIN_COMMENT_CONTENT", "30")
    ELSE environ_get(e, "CCPM_MIN_DEFAULT_CONTENT", "50")

\* The string get_min_content_length hands to int(): the branch taken on
\* the context's prefix picks the variable and its default.
min_content_setting(e, context) ==
    IF StartsWith(context, "epic:")
    THEN environ_get(e, "CCPM_MIN_EPIC_CONTENT", "100")
    ELSE IF StartsWithAny(context, {"task:", "issue:"})
    THEN environ_get(e, "CCPM_MIN_TASK_CONTENT", "50")
    ELSE IF StartsWithAny(context,
                {"comment:", "update:", "progress-update:", "completion:"})
    THEN environ_get(e, "CCPM_MIN_COMMENT_CONTENT", "30")
    ELSE environ_get(e, "CCPM_MIN_DEFAULT_CONTENT", "50")

get_min_content_length_raises(e, context) ==
    int_raises(min_content_setting(e, context))

get_min_content_length(e, context) == int(min_content_setting(e, context))

---------------------------------------------------------------------------
(* Bounds and the inputs drawn by the actions.                             *)

\* At most this many override variables are set at one time.
MaxOverrides == 1

\* The two thresholds callers supply as min_chars: one below every default,
\* one above the length of every template.
SmallMinChars == 10

LargeMinChars == 420

\* A text handed to the detector alone is made of at most this many pieces.
MaxPieces == 3

\* An Optional[int] argument: None, or the integer supplied.
None == <<>>

Some(n) == <<n>>

MinCharsArgs == {None, Some(SmallMinChars), Some(LargeMinChars)}

\* Values an override variable is set to: the one the tests export, and a
\* string that is no integer.
OverrideValues == {"200", "abc"}

Paths == {"body.md"}

Contexts ==
    {"epic:a", "task:a", "task:b", "issue:a", "comment:a", "update:a",
     "progress-update:a", "completion:a", "other:a", "epic"}

RECURSIVE Rep(_, _)
Rep(s, n) ==
    IF n = 0 THEN ""
    ELSE IF n % 2 = 0 THEN LET h == Rep(s, n \div 2) IN h \o h
    ELSE s \o Rep(s, n - 1)

\* A placeholder-free text with exactly n non-whitespace characters.
Prose(n) == Rep("ab cd\n", n \div 4) \o Rep("e", n % 4)

\* Every threshold a call of the model can use.
Thresholds ==
    {int(d) : d \in {"100", "50", "30"}}
        \cup {int(v) : v \in {w \in OverrideValues : IsIntLiteral(w)}}
        \cup {SmallMinChars, LargeMinChars}

\* The documents callers hand to the validator: empty, whitespace only,
\* one short word, placeholders short and long, and prose one character
\* below and exactly at every threshold.
Corpus ==
    {"", "   \n\t\n   ", "   \n\n   Word   \n\n", "# Task\n\nTBD",
     "TODO: add more\n" \o Prose(LargeMinChars)}
        \cup {Prose(m - 1) : m \in Thresholds} \cup {Prose(m) : m \in Thresholds}

Templates ==
    {EpicTemplate, TaskTemplate, ProgressTemplate, CompletionTemplate,
     FallbackTemplate}

\* Every content a file of the model can have.
Texts == Corpus \cup Templates

---------------------------------------------------------------------------
(* The two pure functions of the content validate_body_file_has_content    *)
(* calls, evaluated once for every text a file can hold.                   *)

StrippedTable == [c \in Texts |-> RemoveWhitespace(c)]

PlaceholderTable == [c \in Texts |-> search_placeholder_patterns(c)]

\* Whitespace removed at the two ends of the content only.
re_sub_whitespace_trim(content) == Strip(content)

\* re.sub(r'\s', '', content)
re_sub_whitespace(content) ==
    IF content \in Texts THEN StrippedTable[content]
    ELSE RemoveWhitespace(content)

has_placeholder_text(content) ==
    IF content \in Texts THEN PlaceholderTable[content]
    ELSE search_placeholder_patterns(content)

---------------------------------------------------------------------------
(* State.                                                                  *)

vars == <<fs, environ, call, frame, result, stderr>>

Return(v) == [kind |-> "return", value |-> v]

Raise(e) == [kind |-> "raise", value |-> e]

\* open(path, 'w').write(text)
FileWrite(f, p, text) ==
    [q \in (DOMAIN f) \cup {p} |-> IF q = p THEN text ELSE f[q]]

\* os.unlink(path)
FileRemove(f, p) == [q \in (DOMAIN f) \ {p} |-> f[q]]

\* os.path.exists(path)
path_exists(f, p) == p \in DOMAIN f

NoFrame == [pc |-> "none"]

Init ==
    /\ fs = [p \in {} |-> ""]
    /\ environ = [n \in {} |-> ""]
    /\ call = [op |-> "none"]
    /\ frame = NoFrame
    /\ result = Return("None")
    /\ stderr = <<>>

---------------------------------------------------------------------------
(* The callers' steps around the validator.                                *)

WriteFile(path, text) ==
    /\ fs' = FileWrite(fs, path, text)
    /\ call' = [op |-> "write", file_path |-> path]
    /\ frame' = NoFrame
    /\ result' = Return("None")
    /\ stderr' = <<>>
    /\ UNCHANGED environ

Unlink(path) ==
    /\ path_exists(fs, path)
    /\ fs' = FileRemove(fs, path)
    /\ call' = [op |-> "unlink", file_path |-> path]
    /\ frame' = NoFrame
    /\ result' = Return("None")
    /\ stderr' = <<>>
    /\ UNCHANGED environ

SetEnv(name, value) ==
    /\ Cardinality((DOMAIN environ) \cup {name}) <= MaxOverrides
    /\ environ' = [n \in (DOMAIN environ) \cup {name} |->
                      IF n = name THEN value ELSE environ[n]]
    /\ call' = [op |-> "setenv", name |-> name]
    /\ frame' = NoFrame
    /\ result' = Return("None")
    /\ stderr' = <<>>
    /\ UNCHANGED fs

UnsetEnv(name) ==
    /\ name \in DOMAIN environ
    /\ environ' = [n \in (DOMAIN environ) \ {name} |-> environ[n]]
    /\ call' = [op |-> "unsetenv", name |-> name]
    /\ frame' = NoFrame
    /\ result' = Return("None")
    /\ stderr' = <<>>
    /\ UNCHANGED fs

\* A caller asks the resolver for a threshold directly.
GetMinContentLength(context) ==
    /\ call' = [op |-> "get_min_content_length", context |-> context]
    /\ result' = IF get_min_content_length_raises(environ, context)
                 THEN Raise("ValueError")
                 ELSE Return(get_min_content_length(environ, context))
    /\ frame' = NoFrame
    /\ stderr' = <<>>
    /\ UNCHANGED <<fs, environ>>

---------------------------------------------------------------------------
(* validate_body_file_has_content                                          *)

\* "if min_chars is None: min_chars = get_min_content_length(context)"
\* raises exactly when the resolver is called and int() raises in it.
resolve_raises(min_chars_arg, e, context) ==
    min_chars_arg = None /\ get_min_content_length_raises(e, context)

\* min_chars after that statement.
resolve_min_chars(min_chars_arg, e, context) ==
    IF min_chars_arg = None THEN get_min_content_length(e, context)
    ELSE min_chars_arg[1]

\* needs_replacement with "<=" for "<".
needs_replacement_le(content_length, min_chars, has_placeholder) ==
    content_length <= min_chars \/ has_placeholder

\* needs_replacement with the placeholder flag negated.
needs_replacement_not(content_length, min_chars, has_placeholder) ==
    content_length < min_chars \/ ~has_placeholder

\* needs_replacement asking for a placeholder only.
needs_replacement_placeholder_only(content_length, min_chars, has_placeholder) ==
    has_placeholder

needs_replacement(content_length, min_chars, has_placeholder) ==
    content_length < min_chars \/ has_placeholder

\* The warnings with the placeholder line printed only when the length
\* alone would not have asked for the replacement.
replacement_warnings_trigger_only(file_path, context, content_length, min_chars, has_placeholder) ==
    << <<"Warning: insufficient content", file_path, context>>,
       <<"Content length", content_length, min_chars>> >>
        \o (IF has_placeholder /\ content_length >= min_chars
            THEN << <<"Placeholder text detected">> >>
            ELSE <<>>)
        \o << <<"Adding appropriate default content...">> >>

\* The lines printed to sys.stderr when the file is replaced.
replacement_warnings(file_path, context, content_length, min_chars, has_placeholder) ==
    << <<"Warning: insufficient content", file_path, context>>,
       <<"Content length", content_length, min_chars>> >>
        \o (IF has_placeholder THEN << <<"Placeholder text detected">> >>
            ELSE <<>>)
        \o << <<"Adding appropriate default content...">> >>

\* ValidateMissing that repairs a missing file like an empty one.
ValidateMissingCreates(file_path, context, min_chars) ==
    /\ stderr' = << <<"Error: Body file does not exist", file_path, context>> >>
    /\ result' = Return(TRUE)
    /\ frame' = [pc |-> "missing", min_chars |-> min_chars]
    /\ fs' = FileWrite(fs, file_path, get_default_content(context))

\* Lines 172-174: the file does not exist.
ValidateMissing(file_path, context, min_chars) ==
    /\ stderr' = << <<"Error: Body file does not exist", file_path, context>> >>
    /\ result' = Return(FALSE)
    /\ frame' = [pc |-> "missing", min_chars |-> min_chars]
    /\ fs' = fs

\* Lines 176-204: the file is read, measured and, if need be, replaced.
ValidateExisting(file_path, context, min_chars) ==
    LET content == fs[file_path]
        stripped_content == re_sub_whitespace(content)
        content_length == Len(stripped_content)
        has_placeholder == has_placeholder_text(content)
        replace == needs_replacement(content_length, min_chars, has_placeholder)
    IN  /\ frame' = [pc |-> "returned",
                     min_chars |-> min_chars,
                     content |-> content,
                     content_length |-> content_length,
                     has_placeholder |-> has_placeholder,
                     needs_replacement |-> replace]
        /\ IF replace
           THEN /\ stderr' = replacement_warnings(file_path, context,
                                content_length, min_chars, has_placeholder)
                /\ fs' = FileWrite(fs, file_path, get_default_content(context))
           ELSE /\ stderr' = <<>>
                /\ fs' = fs
        /\ result' = Return(TRUE)

Validate(file_path, context, min_chars_arg) ==
    /\ call' = [op |-> "validate", file_path |-> file_path,
                context |-> context, min_chars |-> min_chars_arg]
    /\ UNCHANGED environ
    /\ IF resolve_raises(min_chars_arg, environ, context)
       THEN \* int() raises in get_min_content_length, before anything else
            /\ result' = Raise("ValueError")
            /\ frame' = [pc |-> "raised"]
            /\ stderr' = <<>>
            /\ fs' = fs
       ELSE LET min_chars == resolve_min_chars(min_chars_arg, environ, context)
            IN  IF ~path_exists(fs, file_path)
                THEN ValidateMissing(file_path, context, min_chars)
                ELSE ValidateExisting(file_path, context, min_chars)

---------------------------------------------------------------------------

Next ==
    \/ \E path \in Paths, text \in Corpus : WriteFile(path, text)
    \/ \E path \in Paths : Unlink(path)
    \/ \E name \in EnvNames, value \in OverrideValues : SetEnv(name, value)
    \/ \E name \in EnvNames : UnsetEnv(name)
    \/ \E context \in Contexts : GetMinContentLength(context)
    \/ \E path \in Paths, context \in Contexts, min_chars \in MinCharsArgs :
           Validate(path, context, min_chars)

Spec == Init /\ [][Next]_vars

---------------------------------------------------------------------------
(* The detector called alone, on texts put together from a few pieces.     *)

Pieces == {"Insert", "here", "to", "be", "added", "TODO", "wip", "e", " ", "\n"}

RECURSIVE Concat(_)
Concat(q) == IF q = <<>> THEN "" ELSE Head(q) \o Concat(Tail(q))

Composed == {Concat(q) : q \in UNION {[1..n -> Pieces] : n \in 0..MaxPieces}}

Sentences ==
    {"a complete description", "the todo list application",
     "wipe the surface clean",
     "Insert description here", "TODO: Add content", "TBD",
     "Description to be added", "FIXME: Write this", "XXX", "Coming soon",
     "Work in progress", "Fill in details here", "Update this section",
     "This is a placeholder", "Write the summary here",
     "coming\nsoon", "fill\nin", "update\n\nthis", "work in\nprogress",
     "Add tests\nand content", "WIP: parser", "wiped", "todos", "a todo",
     "autodidact", "Nothing to see", "mytodo", "see the mytodo file",
     "swipe left"}

DetectInputs == Composed \cup Sentences

\* A caller holds a text and has not yet asked the detector about it.
InitDetect ==
    /\ fs = [p \in {} |-> ""]
    /\ environ = [n \in {} |-> ""]
    /\ call \in {[op |-> "pending", content |-> c] : c \in DetectInputs}
    /\ frame = NoFrame
    /\ result = Return("None")
    /\ stderr = <<>>

HasPlaceholderText ==
    /\ call.op = "pending"
    /\ call' = [op |-> "has_placeholder_text", content |-> call.content]
    /\ result' = Return(has_placeholder_text(call.content))
    /\ frame' = NoFrame
    /\ stderr' = <<>>
    /\ UNCHANGED <<fs, environ>>

NextDetect == HasPlaceholderText

SpecDetect == InitDetect /\ [][NextDetect]_vars

---------------------------------------------------------------------------
(* The frontmatter stripper and the presence check.                        *)

\* f.readlines(): the lines of the text, each with its line break, the
\* last one without when the text does not end in a line break.  The
\* documents below hold no carriage return, so the newline translation of
\* text mode leaves them as they are.
RECURSIVE readlines(_)
readlines(text) ==
    IF text = "" THEN <<>>
    ELSE LET breaks == {i \in 1..Len(text) : Char(text, i) = "\n"}
         IN  IF breaks = {} THEN <<text>>
             ELSE LET b == CHOOSE i \in breaks : \A j \in breaks : i <= j
                  IN  <<SubSeq(text, 1, b)>>
                          \o readlines(SubSeq(text, b + 1, Len(text)))

\* The while loop of both functions: the index of the first line after the
\* first whose stripped text is '---', 0 when the loop runs to its end.
closing_index(lines) ==
    LET found == {i \in 2..Len(lines) : Strip(lines[i]) = "---"}
    IN  IF found = {} THEN 0
        ELSE CHOOSE i \in found : \A j \in found : i <= j

\* content_lines with the closing delimiter kept in the body.
strip_content_lines_keep_closing(lines) ==
    IF lines # <<>> /\ Strip(lines[1]) = "---"
    THEN IF closing_index(lines) # 0
         THEN SubSeq(lines, closing_index(lines), Len(lines))
         ELSE Tail(lines)
    ELSE lines

\* content_lines with the opening line of an unterminated block kept.
strip_content_lines_unterminated_whole(lines) ==
    IF lines # <<>> /\ Strip(lines[1]) = "---"
    THEN IF closing_index(lines) # 0
         THEN SubSeq(lines, closing_index(lines) + 1, Len(lines))
         ELSE lines
    ELSE lines

\* content_lines with only the last line of an unterminated block kept.
strip_content_lines_unterminated_last(lines) ==
    IF lines # <<>> /\ Strip(lines[1]) = "---"
    THEN IF closing_index(lines) # 0
         THEN SubSeq(lines, closing_index(lines) + 1, Len(lines))
         ELSE SubSeq(lines, Len(lines), Len(lines))
    ELSE lines

\* content_lines of strip_frontmatter_safe.
strip_content_lines(lines) ==
    IF lines # <<>> /\ Strip(lines[1]) = "---"
    THEN IF closing_index(lines) # 0
         THEN SubSeq(lines, closing_index(lines) + 1, Len(lines))
         ELSE Tail(lines)
    ELSE lines

\* The content written without the substitution of the default.
strip_content_no_default(lines, default_content) ==
    Strip(Concat(strip_content_lines(lines)))

\* The content strip_frontmatter_safe writes: joined, stripped, and the
\* default when nothing is left.
strip_content(lines, default_content) ==
    LET content == Strip(Concat(strip_content_lines(lines)))
    IN  IF content = "" THEN default_content ELSE content

\* The presence check with an unterminated block taken as empty.
has_content_unterminated_empty(lines) ==
    IF lines = <<>> THEN FALSE
    ELSE IF Strip(lines[1]) = "---"
         THEN IF closing_index(lines) # 0
              THEN Strip(Concat(SubSeq(lines, closing_index(lines) + 1,
                                       Len(lines)))) # ""
              ELSE FALSE
         ELSE Strip(Concat(lines)) # ""

\* The presence check without the strip() of the text it looks at.
has_content_untrimmed(lines) ==
    IF lines = <<>> THEN FALSE
    ELSE IF Strip(lines[1]) = "---"
         THEN IF closing_index(lines) # 0
              THEN Concat(SubSeq(lines, closing_index(lines) + 1,
                                 Len(lines))) # ""
              ELSE Concat(Tail(lines)) # ""
         ELSE Concat(lines) # ""

\* The value has_content_after_frontmatter returns on the lines read.
has_content(lines) ==
    IF lines = <<>> THEN FALSE
    ELSE IF Strip(lines[1]) = "---"
         THEN IF closing_index(lines) # 0
              THEN Strip(Concat(SubSeq(lines, closing_index(lines) + 1,
                                       Len(lines)))) # ""
              ELSE Strip(Concat(Tail(lines))) # ""
         ELSE Strip(Concat(lines)) # ""

\* The longest metadata block of a generated document, in lines.
MaxMetaLines == 2

MetaLinePool == <<"title: X\n", "tags: a, b\n", "status: open\n">>

\* Metadata blocks: key-value lines, and two blocks that hold a '---' with
\* whitespace around it (an indented line of a block scalar, a trailing
\* blank).
MetaBlocks ==
    {SubSeq(MetaLinePool, 1, n) : n \in 0..MaxMetaLines}
        \cup {<<"note: |\n", "  ---\n", "title: X\n">>,
              <<"title: X\n", "--- \n", "tags: a, b\n">>}

\* Bodies: plain, surrounded by blank lines, holding a '---' rule, starting
\* with one, blank, and empty.
Bodies ==
    {"Body line one\nline two\n", "\n  Indented body  \n\n",
     "Intro\n---\nAfter rule\n", "---\nstarts with a rule\n",
     "\n   \n\t\n", ""}

\* A document with an opening '---' line, a metadata block, a closing
\* '---' line and a body.
FrontmatterDocument(meta, body) == "---\n" \o Concat(meta) \o "---\n" \o body

Documents ==
    {FrontmatterDocument(m, b) : m \in MetaBlocks, b \in Bodies}
        \cup {"", "   \n\t\n   ", "---", "---\n", "---\ntitle: X\n---",
              "---\ntitle: X\n", "---\ntitle: Y\nSome real content\n",
              "---  \ntitle: X\n---\nBody\n", " ---\ntitle: X\n---\nBody\n",
              "---\ntitle: X\n ---\nBody\n",
              "# Heading\n\nPlain body\n", "  Plain body, one line  "}

StripPaths == {"doc.md", "body.md"}

DefaultContents == {"Content pending.", ""}

InitStrip ==
    /\ fs = [p \in {} |-> ""]
    /\ environ = [n \in {} |-> ""]
    /\ call = [op |-> "none"]
    /\ frame = NoFrame
    /\ result = Return("None")
    /\ stderr = <<>>

StripFrontmatterSafe(input_file, output_file, default_content) ==
    /\ call' = [op |-> "strip_frontmatter_safe", input_file |-> input_file,
                output_file |-> output_file,
                default_content |-> default_content]
    /\ IF ~path_exists(fs, input_file)
       THEN /\ fs' = FileWrite(fs, output_file, default_content)
            /\ frame' = [pc |-> "missing"]
       ELSE LET lines == readlines(fs[input_file])
            IN  /\ fs' = FileWrite(fs, output_file,
                                   strip_content(lines, default_content))
                /\ frame' = [pc |-> "stripped", lines |-> lines,
                             content_lines |-> strip_content_lines(lines)]
    /\ result' = Return("None")
    /\ stderr' = <<>>
    /\ UNCHANGED environ

\* The presence check opening the file for appending: a missing file is
\* created empty.
HasContentAfterFrontmatterTouch(file_path) ==
    /\ call' = [op |-> "has_content_after_frontmatter",
                file_path |-> file_path]
    /\ IF ~path_exists(fs, file_path)
       THEN /\ result' = Return(FALSE)
            /\ frame' = [pc |-> "missing"]
            /\ fs' = FileWrite(fs, file_path, "")
       ELSE /\ result' = Return(has_content(readlines(fs[file_path])))
            /\ frame' = [pc |-> "read", lines |-> readlines(fs[file_path])]
            /\ fs' = fs
    /\ stderr' = <<>>
    /\ UNCHANGED environ

HasContentAfterFrontmatter(file_path) ==
    /\ call' = [op |-> "has_content_after_frontmatter",
                file_path |-> file_path]
    /\ IF ~path_exists(fs, file_path)
       THEN /\ result' = Return(FALSE)
            /\ frame' = [pc |-> "missing"]
       ELSE /\ result' = Return(has_content(readlines(fs[file_path])))
            /\ frame' = [pc |-> "read", lines |-> readlines(fs[file_path])]
    /\ stderr' = <<>>
    /\ UNCHANGED <<fs, environ>>

NextStrip ==
    \/ \E text \in Documents : WriteFile("doc.md", text)
    \/ \E path \in StripPaths : Unlink(path)
    \/ \E input_file \in StripPaths, default_content \in DefaultContents :
           StripFrontmatterSafe(input_file, "body.md", default_content)
    \/ \E path \in StripPaths : HasContentAfterFrontmatter(path)

SpecStrip == InitStrip /\ [][NextStrip]_vars

---------------------------------------------------------------------------
(* The callers' pipeline: strip the document into the body file, then      *)
(* validate the body file.                                                 *)

\* The length of the long body of the pipeline's documents, in
\* non-whitespace characters: the largest default threshold.
LongBodyChars == 100

\* The states of the input file the pipeline meets: empty, blank,
\* frontmatter only, unterminated, plain, with a short body, with a body
\* long enough for every default threshold, with a placeholder as body.
PipelineDocuments ==
    {"", "   \n\t\n   ", "---\ntitle: X\n---",
     "---\ntitle: Y\nSome real content\n", "# Heading\n\nPlain body\n",
     FrontmatterDocument(<<"title: X\n">>, "Body line one\nline two\n"),
     FrontmatterDocument(<<"title: X\n">>, Prose(LongBodyChars)),
     FrontmatterDocument(<<"title: X\n">>, "TODO: write the body\n")}

NextPipeline ==
    \/ \E text \in PipelineDocuments : WriteFile("doc.md", text)
    \/ \E path \in StripPaths : Unlink(path)
    \/ \E default_content \in DefaultContents :
           StripFrontmatterSafe("doc.md", "body.md", default_content)
    \/ \E context \in Contexts : Validate("body.md", context, None)

SpecPipeline == InitStrip /\ [][NextPipeline]_vars

---------------------------------------------------------------------------
(* Two validate calls on the same path, their steps interleaved. Each call *)
(* runs the statements of validate_body_file_has_content in order; the     *)
(* steps are the ones that touch the file: the existence test, the read,   *)
(* the open for writing, which truncates, and the write.                   *)

Procs == {1, 2}

\* The contents the file holds when the two calls start.
RaceTexts == Corpus \cup {FallbackTemplate, TaskTemplate}

\* f.write(data) on a file opened at offset 0: data over the first
\* characters of what the file holds, the rest left in place.
Overlay(existing, data) ==
    data \o SubSeq(existing, Len(data) + 1, Len(existing))

InitRace ==
    /\ \E text \in RaceTexts : fs = [p \in Paths |-> text]
    /\ environ = [n \in {} |-> ""]
    /\ \E context \in Contexts, min_chars_arg \in MinCharsArgs :
           call = [op |-> "race", file_path |-> "body.md",
                   context |-> context, min_chars |-> min_chars_arg,
                   initial |-> fs["body.md"]]
    /\ frame = [p \in Procs |-> [pc |-> "start"]]
    /\ result = [p \in Procs |-> Return("None")]
    /\ stderr = <<>>

\* Lines 168-174: the threshold is resolved and the path tested.
RaceCheck(p) ==
    /\ frame[p].pc = "start"
    /\ LET min_chars == resolve_min_chars(call.min_chars, environ, call.context)
       IN  IF ~path_exists(fs, call.file_path)
           THEN /\ frame' = [frame EXCEPT ![p] = [pc |-> "done"]]
                /\ result' = [result EXCEPT ![p] = Return(FALSE)]
                /\ stderr' = Append(stderr, <<"Error: Body file does not exist",
                                              call.file_path, call.context>>)
           ELSE /\ frame' = [frame EXCEPT ![p] =
                                [pc |-> "checked", min_chars |-> min_chars]]
                /\ UNCHANGED <<result, stderr>>
    /\ UNCHANGED <<fs, environ, call>>

\* Lines 176-197 and 204: the file is read and measured; the call returns
\* when nothing has to be replaced and prints the warnings otherwise.
RaceRead(p) ==
    /\ frame[p].pc = "checked"
    /\ LET content == fs[call.file_path]
           content_length == Len(re_sub_whitespace(content))
           has_placeholder == has_placeholder_text(content)
           min_chars == frame[p].min_chars
       IN  IF needs_replacement(content_length, min_chars, has_placeholder)
           THEN /\ frame' = [frame EXCEPT ![p] =
                                [pc |-> "warned", min_chars |-> min_chars,
                                 content |-> content]]
                /\ stderr' = stderr \o replacement_warnings(call.file_path,
                                 call.context, content_length, min_chars,
                                 has_placeholder)
                /\ UNCHANGED result
           ELSE /\ frame' = [frame EXCEPT ![p] =
                                [pc |-> "done", min_chars |-> min_chars,
                                 content |-> content]]
                /\ result' = [result EXCEPT ![p] = Return(TRUE)]
                /\ UNCHANGED stderr
    /\ UNCHANGED <<fs, environ, call>>

\* The file opened for update, its content kept.
RaceOpenForWriteKeeps(p) ==
    /\ frame[p].pc = "warned"
    /\ frame' = [frame EXCEPT ![p].pc = "opened"]
    /\ UNCHANGED <<fs, environ, call, result, stderr>>

\* Line 201: open(file_path, 'w') truncates the file.
RaceOpenForWrite(p) ==
    /\ frame[p].pc = "warned"
    /\ fs' = FileWrite(fs, call.file_path, "")
    /\ frame' = [frame EXCEPT ![p].pc = "opened"]
    /\ UNCHANGED <<environ, call, result, stderr>>

\* Lines 202-204: the default content is written from the start of the
\* file, the file closed and True returned.
RaceWrite(p) ==
    /\ frame[p].pc = "opened"
    /\ fs' = FileWrite(fs, call.file_path,
                       Overlay(fs[call.file_path],
                               get_default_content(call.context)))
    /\ frame' = [frame EXCEPT ![p].pc = "done"]
    /\ result' = [result EXCEPT ![p] = Return(TRUE)]
    /\ UNCHANGED <<environ, call, stderr>>

NextRace ==
    \E p \in Procs :
        \/ RaceCheck(p)
        \/ RaceRead(p)
        \/ RaceOpenForWrite(p)
        \/ RaceWrite(p)

SpecRace == InitRace /\ [][NextRace]_vars

---------------------------------------------------------------------------
(* Properties of the validator.                                            *)

\* The last operation was a validate call that returned v.
ValidateReturned(v) ==
    call.op = "validate" /\ result.kind = "return" /\ result.value = v

\* The step is a validate call that returns v.
ValidateReturns(v) ==
    call'.op = "validate" /\ result'.kind = "return" /\ result'.value = v

\* A validate call with arguments c under environment e has a threshold in
\* force: min_chars is supplied, or the configured value is an integer.
HasThreshold(c, e) ==
    c.min_chars # None \/ IsIntLiteral(min_content_setting(e, c.context))

\* The threshold in force for such a call.
ThresholdInForce(c, e) ==
    IF c.min_chars # None THEN c.min_chars[1]
    ELSE int(min_content_setting(e, c.context))

\* The number of non-whitespace characters of a text, counted position by
\* position (and once for every text a file can hold).
CountNonWhitespace(text) ==
    Cardinality({i \in 1..Len(text) : Char(text, i) \notin Whitespace})

NonWhitespaceCounts == [c \in Texts |-> CountNonWhitespace(c)]

NonWhitespaceLength(text) ==
    IF text \in Texts THEN NonWhitespaceCounts[text]
    ELSE CountNonWhitespace(text)

\* C1: after a validate call that returned true the file at path contains
\* no recognized placeholder pattern, whatever the context (the fallback
\* category included) and the prior content.
C1_PlaceholderFreeAfterValidate ==
    ValidateReturned(TRUE) => ~has_placeholder_text(fs[call.file_path])

\* C2: after a validate call that returned true the non-whitespace length
\* of the file at path is at least the threshold in force for that call.
C2_LengthAtLeastThreshold ==
    ValidateReturned(TRUE) =>
        NonWhitespaceLength(fs[call.file_path]) >= frame.min_chars

\* C1: the witness of the violation is the fallback template, which holds
\* the idiom "work in progress".
C1_FallbackTemplateIsPlaceholder == has_placeholder_text(FallbackTemplate)

\* C3: a validate call that has a threshold in force returns false, prints
\* the "does not exist" diagnostic and leaves the file system as it was
\* when the path does not exist, and returns true when the file exists:
\* a missing file is the only outcome that returns false.
C3_MissingFileIsOnlyFailure ==
    [][(call'.op = "validate" /\ HasThreshold(call', environ)) =>
          /\ ~path_exists(fs, call'.file_path) =>
                /\ ValidateReturns(FALSE)
                /\ stderr' = << <<"Error: Body file does not exist",
                                  call'.file_path, call'.context>> >>
                /\ fs' = fs
          /\ path_exists(fs, call'.file_path) => ValidateReturns(TRUE)
          /\ ValidateReturns(FALSE) => ~path_exists(fs, call'.file_path)]_vars

\* C3 witness: a call on a missing path has returned false, the diagnostic
\* is out and still no file is there.
C3_Witness ==
    /\ ValidateReturned(FALSE)
    /\ ~path_exists(fs, call.file_path)
    /\ Len(stderr) = 1 /\ stderr[1][1] = "Error: Body file does not exist"

\* C4: when the file's non-whitespace length is at least the threshold and
\* the detector is false on its content, validate leaves the file
\* byte-identical, prints no diagnostic and returns true.
C4_ValidFileUntouched ==
    [][(/\ call'.op = "validate"
        /\ HasThreshold(call', environ)
        /\ path_exists(fs, call'.file_path)
        /\ NonWhitespaceLength(fs[call'.file_path])
               >= ThresholdInForce(call', environ)
        /\ ~has_placeholder_text(fs[call'.file_path]))
       => (fs' = fs /\ stderr' = <<>> /\ ValidateReturns(TRUE))]_vars

\* C4 witness: a placeholder-free file longer than the threshold went
\* through a call and is what it was.
C4_Witness ==
    /\ ValidateReturned(TRUE)
    /\ frame.content_length > frame.min_chars
    /\ ~frame.has_placeholder
    /\ fs[call.file_path] = frame.content
    /\ stderr = <<>>

\* The part of a context tag before its first colon.
CategoryOf(context) ==
    LET colons == {i \in 1..Len(context) : Char(context, i) = ":"}
    IN  IF colons = {} THEN context
        ELSE SubSeq(context, 1,
                 (CHOOSE i \in colons : \A j \in colons : i <= j) - 1)

HasIdentifier(context) == \E i \in 1..Len(context) : Char(context, i) = ":"

\* The template the spec assigns to a category.
TemplateOfCategory(category) ==
    CASE category = "epic" -> EpicTemplate
      [] category \in {"task", "issue"} -> TaskTemplate
      [] category \in {"progress-update", "comment", "update"} -> ProgressTemplate
      [] category = "completion" -> CompletionTemplate
      [] OTHER -> FallbackTemplate

\* C5: when the detector is true on the file content, a validate call that
\* has a threshold in force replaces the whole file, however long the
\* content is: the file becomes one of the five constant templates, for a
\* context "category:identifier" the template of the category whatever the
\* identifier, and the call returns true.
C5_PlaceholderFileReplaced ==
    [][(/\ call'.op = "validate"
        /\ HasThreshold(call', environ)
        /\ path_exists(fs, call'.file_path)
        /\ has_placeholder_text(fs[call'.file_path]))
       => /\ fs'[call'.file_path] \in Templates
          /\ HasIdentifier(call'.context) =>
                fs'[call'.file_path] = TemplateOfCategory(CategoryOf(call'.context))
          /\ ValidateReturns(TRUE)]_vars

\* C5 witness: a file with a placeholder and more characters than the
\* threshold asks for has been replaced by the template.
C5_Witness ==
    /\ ValidateReturned(TRUE)
    /\ frame.has_placeholder
    /\ frame.content_length >= frame.min_chars
    /\ fs[call.file_path] = TaskTemplate
    /\ fs[call.file_path] # frame.content

\* C6: for a placeholder-free file and the threshold m in force, a file of
\* non-whitespace length exactly m is left untouched and a file of length
\* m - 1 is overwritten with the default template.
C6_ThresholdBoundary ==
    [][(/\ call'.op = "validate"
        /\ HasThreshold(call', environ)
        /\ path_exists(fs, call'.file_path)
        /\ ~has_placeholder_text(fs[call'.file_path]))
       => LET m == ThresholdInForce(call', environ)
              n == NonWhitespaceLength(fs[call'.file_path])
          IN  /\ n = m => fs' = fs
              /\ n = m - 1 =>
                    /\ fs'[call'.file_path] = get_default_content(call'.context)
                    /\ fs'[call'.file_path] # fs[call'.file_path]]_vars

\* C6 witness: a placeholder-free file exactly at the threshold has passed
\* unchanged.
C6_Witness ==
    /\ ValidateReturned(TRUE)
    /\ frame.content_length = frame.min_chars
    /\ ~frame.has_placeholder
    /\ fs[call.file_path] = frame.content

\* C6, the other side of the boundary: a placeholder-free file one
\* character below the threshold has been overwritten.
C6_BelowReached ==
    /\ ValidateReturned(TRUE)
    /\ frame.content_length = frame.min_chars - 1
    /\ ~frame.has_placeholder
    /\ fs[call.file_path] # frame.content

\* The threshold the spec gives a context when no override is set.
DefaultThreshold(context) ==
    IF StartsWith(context, "epic:") THEN 100
    ELSE IF StartsWithAny(context, {"task:", "issue:"}) THEN 50
    ELSE IF StartsWithAny(context,
                {"comment:", "update:", "progress-update:", "completion:"})
    THEN 30
    ELSE 50

\* C7: with no override set the resolver returns 100 for a context
\* beginning with "epic:", 50 for "task:" and "issue:", 30 for "comment:",
\* "update:", "progress-update:" and "completion:", and 50 for any other.
C7_DefaultThresholds ==
    (call.op = "get_min_content_length" /\ DOMAIN environ = {}) =>
        (result.kind = "return" /\ result.value = DefaultThreshold(call.context))

\* C7 witness: the resolver was asked about a completion context with no
\* override set and answered 30.
C7_Witness ==
    /\ call.op = "get_min_content_length"
    /\ DOMAIN environ = {}
    /\ StartsWith(call.context, "completion:")
    /\ result.kind = "return" /\ result.value = 30

\* The override variable of a context's category.
OverrideOf(context) ==
    IF StartsWith(context, "epic:") THEN "CCPM_MIN_EPIC_CONTENT"
    ELSE IF StartsWithAny(context, {"task:", "issue:"}) THEN "CCPM_MIN_TASK_CONTENT"
    ELSE IF StartsWithAny(context,
                {"comment:", "update:", "progress-update:", "completion:"})
    THEN "CCPM_MIN_COMMENT_CONTENT"
    ELSE "CCPM_MIN_DEFAULT_CONTENT"

\* What a resolver call answers under environment e: the value returned or
\* the exception raised.
Resolved(e, context) ==
    IF get_min_content_length_raises(e, context) THEN Raise("ValueError")
    ELSE Return(get_min_content_length(e, context))

\* C8: the threshold a validate call uses is the supplied min_chars when
\* one is supplied, and the configuration is then not consulted; otherwise
\* it is the override of the context's category as set at the moment of the
\* call, or the default when that override is not set. A configuration
\* change touches no file and changes the resolver's answer for the
\* contexts of the changed variable's category only.
C8_ThresholdOfCall ==
    [][/\ (call'.op = "validate" /\ call'.min_chars # None) =>
              (result'.kind = "return" /\ frame'.min_chars = call'.min_chars[1])
       /\ (call'.op = "validate" /\ call'.min_chars = None
             /\ result'.kind = "return") =>
              frame'.min_chars =
                  (IF OverrideOf(call'.context) \in DOMAIN environ
                   THEN int(environ[OverrideOf(call'.context)])
                   ELSE DefaultThreshold(call'.context))
       /\ call'.op \in {"setenv", "unsetenv"} =>
              /\ fs' = fs
              /\ \A c \in Contexts :
                    OverrideOf(c) # call'.name =>
                        Resolved(environ', c) = Resolved(environ, c)]_vars

\* C8 witness: a call without min_chars ran while the override of its
\* category was set to 200 and used 200, not the default.
C8_Witness ==
    /\ call.op = "validate" /\ call.min_chars = None
    /\ result.kind = "return"
    /\ OverrideOf(call.context) \in DOMAIN environ
    /\ frame.min_chars = 200
    /\ frame.min_chars # DefaultThreshold(call.context)

---------------------------------------------------------------------------
(* Properties of the detector.                                             *)

\* The catalogue of the spec: fifteen idioms, each its tokens in order.
Catalogue ==
    { <<"insert", "here">>, <<"to", "be", "added">>, <<"todo">>, <<"tbd">>,
      <<"placeholder">>, <<"description", "here">>, <<"add", "content">>,
      <<"write", "here">>, <<"fill", "in">>, <<"coming", "soon">>,
      <<"work", "in", "progress">>, <<"wip">>, <<"xxx">>, <<"fixme">>,
      <<"update", "this">> }

\* The two idioms that count only as tokens of their own.
StandaloneIdioms == { <<"todo">>, <<"wip">> }

\* The first position at or after from where word stands in s, 0 if none.
FirstIndex(s, word, from) ==
    LET found == {i \in from..(Len(s) - Len(word) + 1) :
                      SubSeq(s, i, i + Len(word) - 1) = word}
    IN  IF found = {} THEN 0
        ELSE CHOOSE i \in found : \A j \in found : i <= j

\* The words occur in s in order, one after the end of the other, with
\* whatever text between them.
RECURSIVE InOrder(_, _, _)
InOrder(s, words, from) ==
    IF words = <<>> THEN TRUE
    ELSE LET i == FirstIndex(s, Head(words), from)
         IN  i # 0 /\ InOrder(s, Tail(words), i + Len(Head(words)))

\* The idiom occurs in s; todo and wip count where no word character
\* follows them immediately.
ContainsIdiom(s, idiom) ==
    IF idiom \in StandaloneIdioms
    THEN \E i \in 1..Len(s) :
            /\ FirstIndex(s, idiom[1], i) = i
            /\ (i + Len(idiom[1]) > Len(s)
                  \/ Char(s, i + Len(idiom[1])) \notin WordChars)
    ELSE InOrder(s, idiom, 1)

\* The lines of a text: the stretches between its line breaks.
LinesOf(text) ==
    LET breaks == {0, Len(text) + 1}
                      \cup {i \in 1..Len(text) : Char(text, i) = "\n"}
    IN  {SubSeq(text, a + 1, b - 1) :
            <<a, b>> \in {p \in breaks \X breaks :
                             /\ p[1] < p[2]
                             /\ \A k \in breaks : ~(p[1] < k /\ k < p[2])}}

C10_ThreeNegatives ==
    (call.op = "has_placeholder_text"
       /\ call.content \in {"a complete description",
                            "the todo list application",
                            "wipe the surface clean"})
    => result.value = FALSE

\* C10 as amended: the detector is false on "a complete description" and
\* on "wipe the surface clean", and true on "the todo list application".
C10_TwoNegativesOnePositive ==
    call.op = "has_placeholder_text" =>
        /\ call.content \in {"a complete description",
                             "wipe the surface clean"} => result.value = FALSE
        /\ call.content = "the todo list application" => result.value = TRUE

\* C10 witness: the detector was asked about the todo list sentence and
\* said yes.
C10_Witness ==
    /\ call.op = "has_placeholder_text"
    /\ call.content = "the todo list application"
    /\ result.value = TRUE

---------------------------------------------------------------------------
(* Properties of the stripper and of the presence check.                   *)

\* The step is a strip call.
StripCalled == call'.op = "strip_frontmatter_safe"

\* The index of the first line break of a text at or after position from,
\* one past the end of the text when there is none.
LineEnd(t, from) ==
    LET breaks == {i \in from..Len(t) : Char(t, i) = "\n"}
    IN  IF breaks = {} THEN Len(t) + 1
        ELSE CHOOSE i \in breaks : \A j \in breaks : i <= j

FirstLine(t) == SubSeq(t, 1, LineEnd(t, 1) - 1)

AfterFirstLine(t) == SubSeq(t, LineEnd(t, 1) + 1, Len(t))

\* The text after the first '---' line of t: <<TRUE, text>> when there is
\* such a line, <<FALSE, "">> when there is none.
RECURSIVE AfterRule(_)
AfterRule(t) ==
    IF t = "" THEN <<FALSE, "">>
    ELSE IF FirstLine(t) = "---" THEN <<TRUE, AfterFirstLine(t)>>
    ELSE AfterRule(AfterFirstLine(t))

\* The body section 4.5 assigns to a document.
BodyText(t) ==
    IF FirstLine(t) = "---"
    THEN IF AfterRule(AfterFirstLine(t))[1]
         THEN AfterRule(AfterFirstLine(t))[2]
         ELSE AfterFirstLine(t)
    ELSE t

\* The document is an opening '---' line, metadata, a closing '---' line
\* and nothing after it.
FrontmatterOnly(t) ==
    /\ FirstLine(t) = "---"
    /\ AfterRule(AfterFirstLine(t)) = <<TRUE, "">>

\* Every line of the text that is '---' up to surrounding whitespace is
\* exactly '---'.
ExactDelimiters(t) ==
    \A line \in LinesOf(t) : Strip(line) = "---" => line = "---"

\* A metadata block none of whose lines is a '---' line.
PlainMeta(meta) ==
    \A i \in 1..Len(meta) : Strip(meta[i]) # "---"

\* C11: for a document made of an opening '---' line, metadata lines none
\* of which is a '---' line, a closing '---' line and a body B that is
\* non-empty after trimming, strip writes exactly the trimmed B to the
\* output path, and no metadata line is among the lines of the output.
C11_StripWritesTrimmedBody ==
    [][StripCalled =>
          \A meta \in MetaBlocks, body \in Bodies :
              (/\ PlainMeta(meta)
               /\ Strip(body) # ""
               /\ path_exists(fs, call'.input_file)
               /\ fs[call'.input_file] = FrontmatterDocument(meta, body))
              => /\ fs'[call'.output_file] = Strip(body)
                 /\ LinesOf(fs'[call'.output_file]) = LinesOf(Strip(body))
                 /\ \A i \in 1..Len(meta) :
                        RStrip(meta[i]) \notin LinesOf(fs'[call'.output_file])]_vars

\* C11 witness: a document with the longest metadata block and a body
\* surrounded by blank lines has been stripped to the trimmed body.
C11_Witness ==
    /\ call.op = "strip_frontmatter_safe"
    /\ call.input_file = "doc.md"
    /\ path_exists(fs, "doc.md")
    /\ fs["doc.md"] = FrontmatterDocument(SubSeq(MetaLinePool, 1, MaxMetaLines),
                                          "\n  Indented body  \n\n")
    /\ fs[call.output_file] = "Indented body"

\* strip has to write the default: the input is missing, empty, frontmatter
\* only, or its body is empty after trimming.
SubstitutionCase(f, p) ==
    \/ ~path_exists(f, p)
    \/ f[p] = ""
    \/ FrontmatterOnly(f[p])
    \/ Strip(BodyText(f[p])) = ""

\* C12: strip writes exactly the default content to the output path,
\* whatever was there, when the input does not exist, is empty, is
\* frontmatter only or has a body that is empty after trimming; in every
\* other case it writes the trimmed body, not the default. No other file
\* changes. Checked on documents whose '---' lines carry no surrounding
\* whitespace.
C12_DefaultExactlyWhenNoBody ==
    [][(/\ StripCalled
        /\ path_exists(fs, call'.input_file) =>
               ExactDelimiters(fs[call'.input_file]))
       => /\ path_exists(fs', call'.output_file)
          /\ IF SubstitutionCase(fs, call'.input_file)
             THEN fs'[call'.output_file] = call'.default_content
             ELSE fs'[call'.output_file] = Strip(BodyText(fs[call'.input_file]))
          /\ \A p \in (DOMAIN fs') \ {call'.output_file} :
                 path_exists(fs, p) /\ fs'[p] = fs[p]]_vars

\* C12 witness: the frontmatter-only document of the spec's scenario has
\* been stripped and the output holds the default.
C12_Witness ==
    /\ call.op = "strip_frontmatter_safe"
    /\ call.input_file = "doc.md"
    /\ call.default_content = "Content pending."
    /\ path_exists(fs, "doc.md")
    /\ fs["doc.md"] = "---\ntitle: X\n---"
    /\ fs[call.output_file] = "Content pending."

\* The unterminated document of the scenario.
UnterminatedScenario == "---\ntitle: Y\nSome real content\n"

C14_PresenceCheckValue ==
    [][(/\ call'.op = "has_content_after_frontmatter"
        /\ path_exists(fs, call'.file_path) =>
               ExactDelimiters(fs[call'.file_path]))
       => /\ result'.kind = "return"
          /\ result'.value =
               (IF ~path_exists(fs, call'.file_path) THEN FALSE
                ELSE LET t == fs[call'.file_path]
                     IN  IF t = "" THEN FALSE
                         ELSE IF FirstLine(t) = "---"
                         THEN IF AfterRule(AfterFirstLine(t))[1]
                              THEN Strip(AfterRule(AfterFirstLine(t))[2]) # ""
                              ELSE Strip(AfterFirstLine(t)) # ""
                         ELSE Strip(t) # "")]_vars

\* C14 witness: the check has answered true on an unterminated document
\* whose lines after the first hold text.
C14_Witness ==
    /\ call.op = "has_content_after_frontmatter"
    /\ path_exists(fs, call.file_path)
    /\ fs[call.file_path] = UnterminatedScenario
    /\ result.kind = "return" /\ result.value = TRUE

\* C14: the check has answered false on a frontmatter-only document.
C14_FalseReached ==
    /\ call.op = "has_content_after_frontmatter"
    /\ path_exists(fs, call.file_path)
    /\ fs[call.file_path] = "---\ntitle: X\n---"
    /\ result.kind = "return" /\ result.value = FALSE

---------------------------------------------------------------------------
(* Properties of the templates, the measured length and the diagnostics.   *)

\* The last operation was a validate call that wrote the default content.
ValidateReplaced ==
    /\ call.op = "validate"
    /\ frame.pc = "returned"
    /\ frame.needs_replacement

\* C15: the generator has exactly five templates, pairwise distinct, one
\* for epic, one for task and issue, one for progress-update, comment and
\* update, one for completion and the fallback, and the template written
\* for a context has at least as many non-whitespace characters as the
\* default threshold of that context (100, 50, 30, 30, 50).
C15_TemplatesMeetDefaults ==
    ValidateReplaced =>
        /\ Cardinality(Templates) = 5
        /\ {get_default_content(c) : c \in Contexts} = Templates
        /\ fs[call.file_path] \in Templates
        /\ HasIdentifier(call.context) =>
               fs[call.file_path] = TemplateOfCategory(CategoryOf(call.context))
        /\ NonWhitespaceLength(fs[call.file_path])
               >= DefaultThreshold(call.context)

\* C15 witness: the fallback template, the shortest one, has been written
\* for a context of no known category.
C15_Witness ==
    /\ ValidateReplaced
    /\ call.context = "other:a"
    /\ fs[call.file_path] = FallbackTemplate
    /\ NonWhitespaceLength(fs[call.file_path]) >= 50

\* C16: the length validate measures is the number of characters of the
\* raw content that are not whitespace: 0 for an empty and for a
\* whitespace-only file, 4 for "Word" surrounded by blanks and line
\* breaks; it is the length the diagnostic reports.
C16_LengthIsNonWhitespaceCount ==
    (call.op = "validate" /\ frame.pc = "returned") =>
        /\ frame.content_length = NonWhitespaceLength(frame.content)
        /\ Strip(frame.content) = "" => frame.content_length = 0
        /\ frame.content = "   \n\n   Word   \n\n" => frame.content_length = 4
        /\ frame.needs_replacement =>
               /\ stderr[2][1] = "Content length"
               /\ stderr[2][2] = NonWhitespaceLength(frame.content)

\* C16 witness: a file holding "Word" between blanks and line breaks has
\* been measured as 4 characters long.
C16_Witness ==
    /\ call.op = "validate"
    /\ frame.pc = "returned"
    /\ frame.content = "   \n\n   Word   \n\n"
    /\ frame.content_length = 4
    /\ stderr[2] = <<"Content length", 4, frame.min_chars>>

\* C16: a whitespace-only file has been measured as 0 characters long.
C16_ZeroReached ==
    /\ call.op = "validate"
    /\ frame.pc = "returned"
    /\ frame.content = "   \n\t\n   "
    /\ frame.content_length = 0

\* C17: a validate call on an existing file prints diagnostics exactly
\* when it overwrites the file; they report the measured length and the
\* threshold, the line "Placeholder text detected" is among them exactly
\* when the detector is true on the content read, and the call returns
\* true either way.
C17_DiagnosticsIffOverwritten ==
    [][(call'.op = "validate" /\ path_exists(fs, call'.file_path)) =>
          /\ stderr' # <<>> <=>
                 (frame'.pc = "returned" /\ frame'.needs_replacement)
          /\ stderr' = <<>> => fs' = fs
          /\ stderr' # <<>> =>
                 /\ fs'[call'.file_path] = get_default_content(call'.context)
                 /\ stderr'[2] = <<"Content length",
                                   NonWhitespaceLength(fs[call'.file_path]),
                                   ThresholdInForce(call', environ)>>
                 /\ (\E i \in 1..Len(stderr') :
                         stderr'[i] = <<"Placeholder text detected">>)
                        <=> has_placeholder_text(fs[call'.file_path])
          /\ result'.kind = "return" => result'.value = TRUE]_vars

\* C17 witness: a file that is long enough but holds a placeholder has
\* been overwritten, with the placeholder line among the diagnostics.
C17_Witness ==
    /\ ValidateReplaced
    /\ frame.has_placeholder
    /\ frame.content_length >= frame.min_chars
    /\ Len(stderr) = 4
    /\ stderr[3] = <<"Placeholder text detected">>

\* C17: a file that is too short and holds no placeholder has been
\* overwritten, with no placeholder line among the diagnostics.
C17_ShortReached ==
    /\ ValidateReplaced
    /\ ~frame.has_placeholder
    /\ Len(stderr) = 3

---------------------------------------------------------------------------
(* Properties of the category, the resolver's totality and the standalone  *)
(* idioms.                                                                 *)

\* The context "<category>:<identifier>" of the category of a context.
WithIdentifier(context) == CategoryOf(context) \o ":a"

\* C18: the category of a context is the part before its first colon, the
\* whole context when it has no colon, and the category selects threshold
\* and template: the resolver answers for a context what it answers for
\* "<category>:<identifier>", and validate writes for it the template it
\* writes for "<category>:<identifier>".
C18_CategorySelectsBoth ==
    /\ call.op = "get_min_content_length" =>
           result = Resolved(environ, WithIdentifier(call.context))
    /\ ValidateReplaced =>
           fs[call.file_path] = TemplateOfCategory(CategoryOf(call.context))

\* C19: for every context and every state of the configuration the
\* resolver completes without error and returns a positive integer.
C19_ResolverReturnsPositive ==
    call.op = "get_min_content_length" =>
        (result.kind = "return" /\ result.value > 0)

\* The positions of s where the word w stands.
Occurrences(s, w) ==
    {i \in 1..(Len(s) - Len(w) + 1) : SubSeq(s, i, i + Len(w) - 1) = w}

\* The occurrence of w at position i of s is part of a larger word: a word
\* character stands immediately before or immediately after it.
InsideWord(s, w, i) ==
    \/ i > 1 /\ Char(s, i - 1) \in WordChars
    \/ i + Len(w) <= Len(s) /\ Char(s, i + Len(w)) \in WordChars

\* The letters todo or wip occur in the text, and only inside larger words.
OnlyInsideWords(content) ==
    LET s == Lower(content)
    IN  /\ \E w \in {"todo", "wip"} : Occurrences(s, w) # {}
        /\ \A w \in {"todo", "wip"} :
               \A i \in Occurrences(s, w) : InsideWord(s, w, i)

\* The text holds none of the thirteen other idioms.
NoOtherIdiom(content) ==
    \A idiom \in Catalogue \ StandaloneIdioms :
        ~ContainsIdiom(Lower(content), idiom)

\* C20: a text in which the letters todo or wip occur only inside a larger
\* word, a word character immediately before or after them, and which
\* holds no other catalogued idiom, is not detected as a placeholder.
C20_StandaloneOnly ==
    (/\ call.op = "has_placeholder_text"
     /\ OnlyInsideWords(call.content)
     /\ NoOtherIdiom(call.content))
    => result.value = FALSE

---------------------------------------------------------------------------
(* Properties of unterminated blocks, of the delimiters, and of the        *)
(* stripper and the presence check taken together.                         *)

\* The first line is '---' and no later line is.
Unterminated(t) ==
    /\ FirstLine(t) = "---"
    /\ ~AfterRule(AfterFirstLine(t))[1]

SectionBodyText(t) ==
    IF RStrip(FirstLine(t)) = "---"
    THEN IF AfterRule(AfterFirstLine(t))[1]
         THEN AfterRule(AfterFirstLine(t))[2]
         ELSE AfterFirstLine(t)
    ELSE t

\* C22: the stripper takes the first line as an opener only when it is
\* '---' after trimming trailing whitespace, and a later line as the
\* closing delimiter only when it is exactly '---'; a line with whitespace
\* before '---' is neither, so a document whose first line is ' ---' is
\* passed through whole as the body.
C22_OnlyExactDelimiters ==
    [][(StripCalled /\ path_exists(fs, call'.input_file)) =>
          LET body == Strip(SectionBodyText(fs[call'.input_file]))
          IN  fs'[call'.output_file] =
                  (IF body = "" THEN call'.default_content ELSE body)]_vars

\* C23: the presence check creates, deletes and modifies no file: the
\* file system after the call is the one before it, whether the file is
\* missing, empty, with or without frontmatter.
C23_PresenceCheckReadsOnly ==
    [][call'.op = "has_content_after_frontmatter" => fs' = fs]_vars

\* C23 witness: the check has run on a missing path and the path is still
\* missing.
C23_Witness ==
    /\ call.op = "has_content_after_frontmatter"
    /\ frame.pc = "missing"
    /\ ~path_exists(fs, call.file_path)
    /\ result.value = FALSE

\* C23: the check has run on a document with frontmatter, which is still
\* there.
C23_ReadReached ==
    /\ call.op = "has_content_after_frontmatter"
    /\ frame.pc = "read"
    /\ fs[call.file_path] = FrontmatterDocument(<<>>, "Body line one\nline two\n")
    /\ result.value = TRUE

\* C25: the presence check and the stripper agree: when a strip call
\* follows a presence check of its input, the check answered false
\* exactly when strip writes the default in place of a body (input
\* missing, empty, or body empty after trimming), and true exactly when
\* strip writes the trimmed body it extracted.
C25_CheckAgreesWithStrip ==
    [][(/\ call.op = "has_content_after_frontmatter"
        /\ StripCalled
        /\ call'.input_file = call.file_path)
       => /\ result.value = FALSE <=>
                 (\/ frame'.pc = "missing"
                  \/ /\ frame'.pc = "stripped"
                     /\ Strip(Concat(frame'.content_lines)) = "")
          /\ result.value = FALSE =>
                 fs'[call'.output_file] = call'.default_content
          /\ result.value = TRUE =>
                 /\ fs'[call'.output_file] = Strip(Concat(frame'.content_lines))
                 /\ fs'[call'.output_file] # ""]_vars

\* C25 witness: a document whose body is blank has been stripped to the
\* default, right after the check; the check's false answer is the
\* premise of the step.
C25_Witness ==
    /\ call.op = "strip_frontmatter_safe"
    /\ call.input_file = "doc.md"
    /\ call.default_content = "Content pending."
    /\ path_exists(fs, "doc.md")
    /\ fs["doc.md"] = FrontmatterDocument(<<"title: X\n">>, "\n   \n\t\n")
    /\ ~has_content(readlines(fs["doc.md"]))
    /\ fs[call.output_file] = "Content pending."

\* C27: stripping is idempotent: a strip of the output of the previous
\* strip, with the same non-empty default, leaves the content the first
\* strip wrote, also when the body begins with a '---' line.
C27_StripIdempotent ==
    [][(/\ call.op = "strip_frontmatter_safe"
        /\ StripCalled
        /\ call'.input_file = call.output_file
        /\ call'.default_content = call.default_content
        /\ call'.default_content # "")
       => fs'[call'.output_file] = fs[call.output_file]]_vars

---------------------------------------------------------------------------
(* Properties of the pipeline and of repeated repair.                      *)

\* C24: in the pipeline strip(input, output, default) followed by
\* validate(output, context), whatever the input file is (missing, empty,
\* frontmatter only, unterminated, plain) and whatever the default, the
\* empty string included, validate does not return false and the output
\* file afterwards has more than 0 non-whitespace characters.
C24_PipelineLeavesContent ==
    [][(/\ call.op = "strip_frontmatter_safe"
        /\ call'.op = "validate"
        /\ call'.file_path = call.output_file)
       => /\ ~(result'.kind = "return" /\ result'.value = FALSE)
          /\ path_exists(fs', call'.file_path)
          /\ NonWhitespaceLength(fs'[call'.file_path]) > 0]_vars

\* C24 witness: with the input missing and the empty default, strip left
\* an empty body file and validate has filled it with the template.
C24_Witness ==
    /\ call.op = "validate"
    /\ frame.pc = "returned"
    /\ frame.content = ""
    /\ ~path_exists(fs, "doc.md")
    /\ result.value = TRUE
    /\ fs[call.file_path] = get_default_content(call.context)
    /\ NonWhitespaceLength(fs[call.file_path]) > 0

\* C26: repair is idempotent: a validate call that follows, with the same
\* path, context and threshold, a validate call that overwrote the file
\* is a clean pass-through: it does not write the file and prints no
\* diagnostics, for every context category and every threshold.
C26_RepairIdempotent ==
    [][(/\ call.op = "validate"
        /\ frame.pc = "returned"
        /\ frame.needs_replacement
        /\ call' = call)
       => /\ frame'.pc = "returned"
          /\ ~frame'.needs_replacement
          /\ stderr' = <<>>
          /\ fs' = fs]_vars

---------------------------------------------------------------------------
(* Properties of two interleaved validate calls.                           *)

\* Both calls have returned.
BothReturned == \A p \in Procs : frame[p].pc = "done"

\* The content one validate call alone leaves in a file that held the
\* initial content: the content itself when it is long enough and free of
\* placeholders, the default content of the context otherwise.
SingleCallContent ==
    IF /\ NonWhitespaceLength(call.initial) >= ThresholdInForce(call, environ)
       /\ ~has_placeholder_text(call.initial)
    THEN call.initial
    ELSE get_default_content(call.context)

\* C28: when two validate calls with the same context and threshold run on
\* the same existing file with their read and write steps interleaved in
\* any order, both return true and the file ends with the content a
\* single call would have left.
C28_InterleavedCallsAgree ==
    (call.op = "race" /\ BothReturned) =>
        /\ \A p \in Procs : result[p] = Return(TRUE)
        /\ fs[call.file_path] = SingleCallContent

\* C28 witness: both calls read the short file before either wrote, both
\* wrote, and the file holds the default content.
C28_Witness ==
    /\ call.op = "race"
    /\ BothReturned
    /\ \A p \in Procs : frame[p].content = "# Task\n\nTBD"
    /\ fs[call.file_path] = get_default_content(call.context)

\* C28: the second call read the file between the first call's open and
\* its write, and found it empty.
C28_ReadTruncatedReached ==
    /\ call.op = "race"
    /\ BothReturned
    /\ call.initial # ""
    /\ \E p \in Procs : frame[p].content = ""

====
